---- MODULE Spec2Model ----
(***************************************************************************)
(* Area boundary to surface converter (src/main.py).                       *)
(*                                                                         *)
(* Lengths and areas are exact rationals: coordinates are integers, the    *)
(* tolerance is the pair <<numerator, denominator>>, the minimum area is   *)
(* ThrNum/ThrDen and a numeric metadata value n stands for n hundredths.   *)
(* Point coordinates are drawn from Coords.  A comparison                  *)
(* "sqrt(a) < t" of the code is evaluated as "a < t*t" on non-negative     *)
(* rationals.                                                              *)
(***************************************************************************)
EXTENDS Integers, Sequences, FiniteSets, TLC

VARIABLES all_objects, boundaries, i, pc, converted_surfaces,
          failed_conversions, curve_loops, marks, created_version,
          attached_info, attached_errors, context_view,
          tolerance, points, planar_done, planar

vars == <<all_objects, boundaries, i, pc, converted_surfaces,
          failed_conversions, curve_loops, marks, created_version,
          attached_info, attached_errors, context_view,
          tolerance, tolerance, points, planar_done, planar>>

(* ------------------------------ bounds --------------------------------- *)
MaxBatch == 2
MaxPts == 4

(* ------------------------- FunctionInputs ------------------------------ *)
\* surface_tolerance = 0.01
TolNum == 1
TolDen == 100
\* min_area_threshold = 0.1
ThrNum == 1
ThrDen == 10

(* ------------------------------ values --------------------------------- *)
P(px, py, pz) == [x |-> px, y |-> py, z |-> pz]

\* Python values held by attributes: a number (in hundredths), a string,
\* a list of integers, a dict.
Num(n) == [t |-> "num", n |-> n, l |-> <<>>, d |-> <<>>]
Str == [t |-> "str", n |-> 0, l |-> <<>>, d |-> <<>>]
List(l) == [t |-> "list", n |-> 0, l |-> l, d |-> <<>>]
Dict(d) == [t |-> "dict", n |-> 0, l |-> <<>>, d |-> d]

\* Geometry objects.  attrs is the set of attributes hasattr() finds;
\* iterable is FALSE when the points attribute holds None.
Line(s, e) ==
    [speckle_type |-> "Objects.Geometry.Line", attrs |-> {"start", "end"},
     start |-> s, end |-> e, pts |-> <<>>, iterable |-> TRUE]
Polyline(ps) ==
    [speckle_type |-> "Objects.Geometry.Polyline", attrs |-> {"points"},
     start |-> P(0, 0, 0), end |-> P(0, 0, 0), pts |-> ps, iterable |-> TRUE]
NurbsCurve(ps) ==
    [speckle_type |-> "Objects.Geometry.Curve", attrs |-> {"controlPoints"},
     start |-> P(0, 0, 0), end |-> P(0, 0, 0), pts |-> ps, iterable |-> TRUE]
BrokenPolyline ==
    [speckle_type |-> "Objects.Geometry.Polyline", attrs |-> {"points"},
     start |-> P(0, 0, 0), end |-> P(0, 0, 0), pts |-> <<>>, iterable |-> FALSE]
PointObject ==
    [speckle_type |-> "Objects.Geometry.Point", attrs |-> {},
     start |-> P(0, 0, 0), end |-> P(0, 0, 0), pts |-> <<>>, iterable |-> TRUE]

(* ------------------------ AreaBoundaryProcessor ------------------------ *)
possible_curve_attrs == <<"curves", "outline", "boundary", "geometry", "displayValue">>

\* curve_type in str(speckle_type), for the type names that occur
curve_types ==
    {"Objects.Geometry.Line", "Objects.Geometry.Polyline", "Objects.Geometry.Curve",
     "Objects.Geometry.Arc", "Objects.Geometry.Circle", "Objects.Geometry.Ellipse",
     "Objects.Geometry.Polycurve"}

is_curve(obj) == obj.speckle_type \in curve_types

RECURSIVE ExtractFrom(_, _)
ExtractFrom(boundary, k) ==
    IF k > Len(possible_curve_attrs) THEN <<>>
    ELSE LET attr_name == possible_curve_attrs[k]
             found ==
                 IF attr_name \in DOMAIN boundary.geom
                 THEN LET attr_value == boundary.geom[attr_name]
                      IN  IF attr_value.is_list
                          THEN SelectSeq(attr_value.items, is_curve)
                          ELSE IF is_curve(attr_value.items[1])
                               THEN <<attr_value.items[1]>>
                               ELSE <<>>
                 ELSE <<>>
         IN  found \o ExtractFrom(boundary, k + 1)

extract_curves_from_boundary(boundary) == ExtractFrom(boundary, 1)

\* slicing slip: the last curve is left out of the loop
group_curves_drop_last(curves) ==
    IF curves = <<>> THEN <<>> ELSE <<SubSeq(curves, 1, Len(curves) - 1)>>

group_curves_into_loops(curves) ==
    IF curves = <<>> THEN <<>> ELSE <<curves>>

\* ok = FALSE stands for the TypeError of list.extend(None)
get_curve_points(curve) ==
    IF "start" \in curve.attrs /\ "end" \in curve.attrs
    THEN [ok |-> TRUE, pts |-> <<curve.start, curve.end>>]
    ELSE IF "points" \in curve.attrs \/ "controlPoints" \in curve.attrs
         THEN [ok |-> curve.iterable, pts |-> curve.pts]
         ELSE [ok |-> TRUE, pts |-> <<>>]

RECURSIVE CollectPoints(_, _)
CollectPoints(curves, k) ==
    IF k > Len(curves) THEN [ok |-> TRUE, pts |-> <<>>]
    ELSE LET here == get_curve_points(curves[k])
         IN  IF ~here.ok THEN [ok |-> FALSE, pts |-> <<>>]
             ELSE LET rest == CollectPoints(curves, k + 1)
                  IN  [ok |-> rest.ok, pts |-> here.pts \o rest.pts]

Sub(p, q) == <<p.x - q.x, p.y - q.y, p.z - q.z>>
Cross(v1, v2) ==
    <<v1[2] * v2[3] - v1[3] * v2[2],
      v1[3] * v2[1] - v1[1] * v2[3],
      v1[1] * v2[2] - v1[2] * v2[1]>>
Dot(u, v) == u[1] * v[1] + u[2] * v[2] + u[3] * v[3]

\* slip: the signed distance is compared, abs() forgotten
RECURSIVE WithinPlane_NoAbs(_, _, _, _)
WithinPlane_NoAbs(pts, k, p1, normal) ==
    IF k > Len(pts) THEN TRUE
    ELSE LET to_point == Sub(pts[k], p1)
             d == Dot(to_point, normal)
         IN  IF d > 0 /\ d * d * tolerance[2] * tolerance[2]
                            > tolerance[1] * tolerance[1] * Dot(normal, normal)
             THEN FALSE
             ELSE WithinPlane_NoAbs(pts, k + 1, p1, normal)

\* the loop "for point in points[3:]" with its early return
RECURSIVE WithinPlane(_, _, _, _)
WithinPlane(pts, k, p1, normal) ==
    IF k > Len(pts) THEN TRUE
    ELSE LET to_point == Sub(pts[k], p1)
             d == Dot(to_point, normal)
         IN  \* distance > tolerance, distance = |d| / normal_length
             IF d * d * tolerance[2] * tolerance[2]
                    > tolerance[1] * tolerance[1] * Dot(normal, normal)
             THEN FALSE
             ELSE WithinPlane(pts, k + 1, p1, normal)

points_are_coplanar(pts) ==
    IF Len(pts) < 4 THEN TRUE
    ELSE LET p1 == pts[1]
             v1 == Sub(pts[2], p1)
             v2 == Sub(pts[3], p1)
             normal == Cross(v1, v2)
         IN  \* normal_length < tolerance
             IF Dot(normal, normal) * tolerance[2] * tolerance[2]
                    < tolerance[1] * tolerance[1]
             THEN TRUE
             ELSE WithinPlane(pts, 4, p1, normal)

\* result "raise" stands for an exception leaving the method
curves_are_coplanar(curves) ==
    IF Len(curves) < 2 THEN "true"
    ELSE LET got == CollectPoints(curves, 1)
         IN  IF ~got.ok THEN "raise"
             ELSE IF Len(got.pts) < 3 THEN "true"
             ELSE IF points_are_coplanar(got.pts) THEN "true" ELSE "false"

RECURSIVE Flatten(_, _)
Flatten(pts, k) ==
    IF k > Len(pts) THEN <<>>
    ELSE <<pts[k].x, pts[k].y, pts[k].z>> \o Flatten(pts, k + 1)

RECURSIVE FanFaces(_, _)
FanFaces(n, k) ==
    IF k > n - 2 THEN <<>> ELSE <<0, k, k + 1>> \o FanFaces(n, k + 1)

create_mesh_from_points(pts) ==
    [vertices |-> Flatten(pts, 1),
     faces |-> IF Len(pts) >= 3 THEN FanFaces(Len(pts), 1) ELSE <<>>,
     props |-> <<>>,
     speckle_type |-> "Objects.Geometry.Mesh",
     converted_from |-> ""]

\* setattr(mesh, key, value): the mesh fields are attributes like any other
SetAttr(mesh, key, value) ==
    IF key = "vertices" THEN [mesh EXCEPT !.vertices = value.l]
    ELSE IF key = "faces" THEN [mesh EXCEPT !.faces = value.l]
    ELSE [mesh EXCEPT !.props =
            [k \in DOMAIN mesh.props \cup {key} |->
                IF k = key THEN value ELSE mesh.props[k]]]

RECURSIVE TransferMetadata(_, _, _)
TransferMetadata(mesh, metadata, keys) ==
    IF keys = {} THEN mesh
    ELSE LET key == CHOOSE k \in keys : TRUE
         IN  TransferMetadata(SetAttr(mesh, key, metadata[key]), metadata, keys \ {key})

\* kind is "none" (returns None), "mesh" or "raise"
create_surface_from_curves(curves, metadata) ==
    LET got == CollectPoints(curves, 1)
        none == create_mesh_from_points(<<>>)
    IN  IF ~got.ok THEN [kind |-> "raise", mesh |-> none]
        ELSE IF Len(got.pts) < 3 THEN [kind |-> "none", mesh |-> none]
        ELSE LET mesh == TransferMetadata(create_mesh_from_points(got.pts),
                                          metadata, DOMAIN metadata)
             IN  [kind |-> "mesh",
                  mesh |-> [mesh EXCEPT !.speckle_type = "Objects.Geometry.Mesh",
                                        !.converted_from = "AreaBoundary"]]

preserve_attrs ==
    {"area", "perimeter", "name", "number", "level", "roomNumber", "roomName",
     "department", "occupancy", "parameters", "properties", "units"}

extract_metadata(boundary) ==
    LET base == [k \in preserve_attrs \cap DOMAIN boundary.props |-> boundary.props[k]]
    IN  IF "parameters" \in DOMAIN boundary.props
           /\ boundary.props["parameters"].t = "dict"
        THEN LET params == boundary.props["parameters"].d
             IN  [k \in DOMAIN base \cup DOMAIN params |->
                     IF k \in DOMAIN params THEN params[k] ELSE base[k]]
        ELSE base

(* -------------------------- automate_function -------------------------- *)
\* "AreaBoundary" in str(speckle_type) or "Area" in str(speckle_type),
\* for the type names that occur
IsBoundary(obj) ==
    obj.speckle_type \in {"Objects.BuiltElements.Area",
                          "Objects.BuiltElements.Revit.AreaBoundary"}

\* metadata["area"] < min_area_threshold; "raise" is the TypeError of
\* comparing a non-number with a float
AreaBelowThreshold(metadata) ==
    IF "area" \notin DOMAIN metadata THEN "false"
    ELSE IF metadata["area"].t # "num" THEN "raise"
    ELSE IF metadata["area"].n * ThrDen < ThrNum * 100 THEN "true" ELSE "false"

\* for loop in curve_loops: ... converted_surfaces.append(surface)
RECURSIVE ConvertLoops(_, _, _)
ConvertLoops(loops, k, metadata) ==
    IF k > Len(loops) THEN [meshes |-> <<>>, raised |-> FALSE]
    ELSE LET surface == create_surface_from_curves(loops[k], metadata)
         IN  IF surface.kind = "raise" THEN [meshes |-> <<>>, raised |-> TRUE]
             ELSE LET rest == ConvertLoops(loops, k + 1, metadata)
                      here == IF surface.kind = "mesh" THEN <<surface.mesh>> ELSE <<>>
                  IN  [meshes |-> here \o rest.meshes, raised |-> rest.raised]

Failure(idx, reason) == [index |-> idx, reason |-> reason]

\* slip: "except Exception: pass", the exception is swallowed unrecorded
ProcessBoundary_Swallow(boundary, idx, old_loops) ==
    LET curves == extract_curves_from_boundary(boundary)
        coplanar == curves_are_coplanar(curves)
        metadata == extract_metadata(boundary)
        below == AreaBelowThreshold(metadata)
        loops == group_curves_into_loops(curves)
        conv == ConvertLoops(loops, 1, metadata)
    IN  IF curves = <<>>
        THEN [meshes |-> <<>>, failures |-> <<Failure(idx, "No curves found")>>,
              loops |-> old_loops]
        ELSE IF coplanar = "raise"
        THEN [meshes |-> <<>>, failures |-> <<>>, loops |-> old_loops]
        ELSE IF coplanar = "false"
        THEN [meshes |-> <<>>, failures |-> <<Failure(idx, "Curves not coplanar")>>,
              loops |-> old_loops]
        ELSE IF below # "false"
        THEN [meshes |-> <<>>, failures |-> <<>>, loops |-> old_loops]
        ELSE [meshes |-> conv.meshes, failures |-> <<>>, loops |-> loops]

\* one pass of the body of "for i, boundary in enumerate(boundaries)"
ProcessBoundary(boundary, idx, old_loops) ==
    LET curves == extract_curves_from_boundary(boundary)
        coplanar == curves_are_coplanar(curves)
        metadata == extract_metadata(boundary)
        below == AreaBelowThreshold(metadata)
        loops == group_curves_into_loops(curves)
        conv == ConvertLoops(loops, 1, metadata)
        raised == <<Failure(idx, "TypeError")>>
    IN  IF curves = <<>>
        THEN [meshes |-> <<>>, failures |-> <<Failure(idx, "No curves found")>>,
              loops |-> old_loops]
        ELSE IF coplanar = "raise"
        THEN [meshes |-> <<>>, failures |-> raised, loops |-> old_loops]
        ELSE IF coplanar = "false"
        THEN [meshes |-> <<>>, failures |-> <<Failure(idx, "Curves not coplanar")>>,
              loops |-> old_loops]
        ELSE IF below = "raise"
        THEN [meshes |-> <<>>, failures |-> raised, loops |-> old_loops]
        ELSE IF below = "true"
        THEN [meshes |-> <<>>, failures |-> <<>>, loops |-> old_loops]
        ELSE [meshes |-> conv.meshes,
              failures |-> IF conv.raised THEN raised ELSE <<>>,
              loops |-> loops]

(* ------------------------------ inputs --------------------------------- *)
O == P(0, 0, 0)
A == P(1, 0, 0)
B == P(1, 1, 0)
C == P(0, 1, 0)
Cz == P(0, 1, 1)
D == P(2, 0, 0)
E == P(2, 1, 0)
F == P(2, 2, 0)

ListOf(items) == [is_list |-> TRUE, items |-> items]
Single(obj) == [is_list |-> FALSE, items |-> <<obj>>]

Geoms ==
    { "curves" :> ListOf(<<PointObject>>),
      "curves" :> ListOf(<<Polyline(<<O, A, B, C>>)>>),
      "curves" :> ListOf(<<Line(O, A), Line(A, B), Line(B, C), Line(C, O)>>),
      "curves" :> ListOf(<<Polyline(<<O, A, B, Cz>>)>>),
      ("curves" :> ListOf(<<Line(O, A), Line(A, B)>>))
          @@ ("outline" :> ListOf(<<NurbsCurve(<<B, Cz>>), PointObject, Line(Cz, O)>>)),
      "boundary" :> Single(Line(O, O)),
      "geometry" :> Single(Polyline(<<O, O, O>>)),
      "curves" :> ListOf(<<Polyline(<<O, A, C, O>>), Line(D, E), Line(E, F)>>),
      "displayValue" :> Single(BrokenPolyline),
      "curves" :> ListOf(<<Line(O, A), BrokenPolyline>>) }

Props ==
    { ("area" :> Num(500)) @@ ("name" :> Str),
      "area" :> Num(5),
      "area" :> Str,
      "parameters" :> Dict("faces" :> List(<<0, 7, 9>>)) }

Wall ==
    [speckle_type |-> "Objects.BuiltElements.Wall", geom |-> <<>>, props |-> <<>>]

Objects ==
    { [speckle_type |-> "Objects.BuiltElements.Area", geom |-> g, props |-> p] :
        g \in Geoms, p \in Props } \cup {Wall}

SeqsUpTo(S, n) == UNION { [1..m -> S] : m \in 0..n }

Coords == {0, 1}
\* the default tolerance 0.01 and a tolerance of one grid step
Tolerances == {<<TolNum, TolDen>>, <<1, 1>>}
Points3 == { P(px, py, pz) : px \in Coords, py \in Coords, pz \in Coords }

(* ------------------------------ behaviour ------------------------------ *)
Init ==
    /\ all_objects \in SeqsUpTo(Objects, MaxBatch)
    /\ boundaries = <<>>
    /\ i = 0
    /\ pc = "start"
    /\ converted_surfaces = <<>>
    /\ failed_conversions = <<>>
    /\ curve_loops = <<>>
    /\ marks = <<>>
    /\ created_version = <<>>
    /\ attached_info = <<>>
    /\ attached_errors = <<>>
    /\ context_view = FALSE
    /\ tolerance = <<TolNum, TolDen>>
    /\ points = <<>>
    /\ planar_done = FALSE
    /\ planar = FALSE

\* receive_version, flatten_base, the type filter and the empty-batch exit
FindBoundaries ==
    /\ pc = "start"
    /\ LET found == SelectSeq(all_objects, IsBoundary)
       IN  /\ boundaries' = found
           /\ IF found = <<>>
              THEN /\ marks' = Append(marks, "failed")
                   /\ pc' = "done"
              ELSE /\ marks' = marks
                   /\ pc' = "loop"
    /\ UNCHANGED <<all_objects, i, converted_surfaces, failed_conversions,
                   curve_loops, created_version, attached_info, attached_errors,
                   context_view, tolerance, points, planar_done, planar>>

\* one iteration of the batch loop
LoopBody ==
    /\ pc = "loop"
    /\ i < Len(boundaries)
    /\ LET r == ProcessBoundary(boundaries[i + 1], i, curve_loops)
       IN  /\ converted_surfaces' = converted_surfaces \o r.meshes
           /\ failed_conversions' = failed_conversions \o r.failures
           /\ curve_loops' = r.loops
    /\ i' = i + 1
    /\ pc' = IF i + 1 = Len(boundaries) THEN "publish" ELSE "loop"
    /\ UNCHANGED <<all_objects, boundaries, marks, created_version, attached_info,
                   attached_errors, context_view, tolerance, points, planar_done, planar>>

\* slip: any per-boundary failure marks the whole run failed
Publish_FailOnAnyFailure ==
    /\ pc = "publish"
    /\ \E preserve_original \in BOOLEAN :
          LET converted_objects ==
                  (IF preserve_original THEN Len(boundaries) ELSE 0)
                      + Len(converted_surfaces)
          IN  IF converted_surfaces # <<>> /\ failed_conversions = <<>>
              THEN /\ created_version' =
                          Append(created_version,
                                 [objects |-> converted_objects,
                                  surfaces |-> Len(converted_surfaces)])
                   /\ attached_info' = Append(attached_info, Len(converted_surfaces))
                   /\ marks' = Append(marks, "success")
              ELSE /\ marks' = Append(marks, "failed")
                   /\ UNCHANGED <<created_version, attached_info>>
    /\ pc' = "report"
    /\ UNCHANGED <<all_objects, boundaries, i, converted_surfaces,
                   failed_conversions, curve_loops, attached_errors, context_view,
                   tolerance, points, planar_done, planar>>

\* the result collection, the new version and the run mark
Publish ==
    /\ pc = "publish"
    /\ \E preserve_original \in BOOLEAN :
          LET converted_objects ==
                  (IF preserve_original THEN Len(boundaries) ELSE 0)
                      + Len(converted_surfaces)
          IN  IF converted_surfaces # <<>>
              THEN /\ created_version' =
                          Append(created_version,
                                 [objects |-> converted_objects,
                                  surfaces |-> Len(converted_surfaces)])
                   /\ attached_info' = Append(attached_info, Len(converted_surfaces))
                   /\ marks' = Append(marks, "success")
              ELSE /\ marks' = Append(marks, "failed")
                   /\ UNCHANGED <<created_version, attached_info>>
    /\ pc' = "report"
    /\ UNCHANGED <<all_objects, boundaries, i, converted_surfaces,
                   failed_conversions, curve_loops, attached_errors, context_view,
                   tolerance, points, planar_done, planar>>

Min(a, b) == IF a < b THEN a ELSE b

\* the failure report and set_context_view
Report ==
    /\ pc = "report"
    /\ attached_errors' =
          IF failed_conversions # <<>>
          THEN Append(attached_errors,
                      [count |-> Len(failed_conversions),
                       shown |-> SubSeq(failed_conversions, 1,
                                        Min(3, Len(failed_conversions)))])
          ELSE attached_errors
    /\ context_view' = TRUE
    /\ pc' = "done"
    /\ UNCHANGED <<all_objects, boundaries, i, converted_surfaces,
                   failed_conversions, curve_loops, marks, created_version,
                   attached_info, tolerance, points, planar_done, planar>>

Next == FindBoundaries \/ LoopBody \/ Publish \/ Report

Spec == Init /\ [][Next]_vars

(* points_are_coplanar on its own, over every short point sequence *)
InitPlanar ==
    /\ all_objects = <<>>
    /\ boundaries = <<>>
    /\ i = 0
    /\ pc = "planar"
    /\ converted_surfaces = <<>>
    /\ failed_conversions = <<>>
    /\ curve_loops = <<>>
    /\ marks = <<>>
    /\ created_version = <<>>
    /\ attached_info = <<>>
    /\ attached_errors = <<>>
    /\ context_view = FALSE
    /\ tolerance \in Tolerances
    /\ points \in SeqsUpTo(Points3, MaxPts)
    /\ planar_done = FALSE
    /\ planar = FALSE

CheckPlanar ==
    /\ pc = "planar"
    /\ ~planar_done
    /\ planar' = points_are_coplanar(points)
    /\ planar_done' = TRUE
    /\ UNCHANGED <<all_objects, boundaries, i, pc, converted_surfaces,
                   failed_conversions, curve_loops, marks, created_version,
                   attached_info, attached_errors, context_view, tolerance, points>>

NextPlanar == CheckPlanar

SpecPlanar == InitPlanar /\ [][NextPlanar]_vars

(* ------------------------------ properties ----------------------------- *)
Curves(b) == extract_curves_from_boundary(b)
Pooled(curves) == CollectPoints(curves, 1)
Range(seq) == { seq[k] : k \in 1..Len(seq) }
NewMeshes == SubSeq(converted_surfaces', Len(converted_surfaces) + 1,
                    Len(converted_surfaces'))
NewFailures == SubSeq(failed_conversions', Len(failed_conversions) + 1,
                      Len(failed_conversions'))
Reasons == {"No curves found", "Curves not coplanar", "TypeError", "MalformedLoop",
            "DegeneratePolygon"}

\* the boundary gets as far as the tessellation of its loops
ReachesConversion(b) ==
    /\ Curves(b) # <<>>
    /\ curves_are_coplanar(Curves(b)) = "true"
    /\ AreaBelowThreshold(extract_metadata(b)) = "false"

\* no curves, not coplanar, or an exception in a pipeline stage
BoundaryFails(b) ==
    \/ Curves(b) = <<>>
    \/ curves_are_coplanar(Curves(b)) # "true"
    \/ AreaBelowThreshold(extract_metadata(b)) = "raise"
    \/ /\ ReachesConversion(b)
       /\ \E k \in 1..Len(Curves(b)) : ~get_curve_points(Curves(b)[k]).ok

\* C1: a boundary that fails (no curves, not coplanar, exception) appends
\* exactly one failure entry with its index, appends no mesh, and the loop
\* goes on to the next boundary; no step ever removes a mesh, and the loop
\* is left only when every boundary has been visited.
C1_FailureIsRecordedAndLoopContinues ==
    [][/\ (pc = "loop" /\ BoundaryFails(boundaries[i + 1])) =>
            /\ \E reason \in Reasons :
                  failed_conversions' = Append(failed_conversions, Failure(i, reason))
            /\ converted_surfaces' = converted_surfaces
            /\ i' = i + 1
            /\ (i + 1 < Len(boundaries) => pc' = "loop")
       /\ Len(converted_surfaces') >= Len(converted_surfaces)
       /\ SubSeq(converted_surfaces', 1, Len(converted_surfaces)) = converted_surfaces
       /\ (pc = "loop" /\ pc' # "loop" => i' = Len(boundaries))]_vars

\* a failed boundary was followed by one that produced a mesh, and a mesh
\* produced earlier survived a later failure
C1_Witness ==
    /\ pc = "publish"
    /\ Len(boundaries) >= 2
    /\ BoundaryFails(boundaries[1])
    /\ \E k \in 1..Len(failed_conversions) : failed_conversions[k].index = 0
    /\ converted_surfaces # <<>>

DeclaresSmallArea(b) ==
    /\ "area" \in DOMAIN b.props
    /\ b.props["area"].t = "num"
    /\ b.props["area"].n * ThrDen < ThrNum * 100

\* C2: a boundary declaring an area below min_area_threshold adds no mesh
\* and no failure entry, whatever its curves are.
C2_SmallAreaIsSilent ==
    [][(pc = "loop" /\ DeclaresSmallArea(boundaries[i + 1])) =>
            /\ converted_surfaces' = converted_surfaces
            /\ failed_conversions' = failed_conversions]_vars

\* C3: a boundary with at least one curve whose pooled points fail the
\* plane-fit test is rejected with a "not coplanar" entry and yields no mesh,
\* for any number of curves.
C3_PlanarityGate ==
    [][(/\ pc = "loop"
        /\ Curves(boundaries[i + 1]) # <<>>
        /\ Pooled(Curves(boundaries[i + 1])).ok
        /\ ~points_are_coplanar(Pooled(Curves(boundaries[i + 1])).pts)) =>
            /\ converted_surfaces' = converted_surfaces
            /\ failed_conversions' =
                  Append(failed_conversions, Failure(i, "Curves not coplanar"))]_vars

\* C4: the run is marked exactly once, at its end: failed if and only if no
\* mesh was produced (also when no boundary was found), success otherwise,
\* whatever the failure entries are.
C4_RunMarkedOnce ==
    /\ pc \in {"start", "loop", "publish"} => marks = <<>>
    /\ pc \in {"report", "done"} =>
          /\ Len(marks) = 1
          /\ marks[1] \in {"failed", "success"}
          /\ marks[1] = "failed" <=> converted_surfaces = <<>>
    /\ created_version # <<>> => marks = <<"success">>

\* a finished run with failure entries and a mesh, marked success
C4_Witness ==
    /\ pc = "done"
    /\ failed_conversions # <<>>
    /\ converted_surfaces # <<>>
    /\ marks = <<"success">>

PlaneNormal(pts) == Cross(Sub(pts[2], pts[1]), Sub(pts[3], pts[1]))
PlaneOffset(pts, k) == Dot(Sub(pts[k], pts[1]), PlaneNormal(pts))
ExpectedPlanar(pts) ==
    \/ Len(pts) <= 3
    \/ Dot(PlaneNormal(pts), PlaneNormal(pts)) * tolerance[2] * tolerance[2]
          < tolerance[1] * tolerance[1]
    \/ \A k \in 4..Len(pts) :
          PlaneOffset(pts, k) * PlaneOffset(pts, k) * tolerance[2] * tolerance[2]
              <= tolerance[1] * tolerance[1] * Dot(PlaneNormal(pts), PlaneNormal(pts))

Quads == { <<O, A, B, C>> }
QuadAsPolyline(q) == "curves" :> ListOf(<<Polyline(q)>>)
QuadAsLines(q) ==
    "curves" :> ListOf(<<Line(q[1], q[2]), Line(q[2], q[3]),
                         Line(q[3], q[4]), Line(q[4], q[1])>>)
NumVertices(mesh) == Len(mesh.vertices) \div 3
NumFaces(mesh) == Len(mesh.faces) \div 3
Vertex(mesh, n) ==
    P(mesh.vertices[3 * n + 1], mesh.vertices[3 * n + 2], mesh.vertices[3 * n + 3])
Abs(n) == IF n < 0 THEN -n ELSE n
\* twice the area of a triangle, resp. a quadrilateral, of the plane z = 0
TriArea2(a, b, c) == Abs((b.x - a.x) * (c.y - a.y) - (b.y - a.y) * (c.x - a.x))
QuadArea2(q) == TriArea2(q[1], q[2], q[3]) + TriArea2(q[1], q[3], q[4])
RECURSIVE MeshArea2(_, _)
MeshArea2(mesh, f) ==
    IF f > NumFaces(mesh) THEN 0
    ELSE TriArea2(Vertex(mesh, mesh.faces[3 * f - 2]),
                  Vertex(mesh, mesh.faces[3 * f - 1]),
                  Vertex(mesh, mesh.faces[3 * f]))
         + MeshArea2(mesh, f + 1)

\* C6: a convex quadrilateral without holes, given as one polyline of its
\* four corners or as four Line segments, is tessellated into a mesh of
\* exactly 2 triangles whose areas sum to the area of the quadrilateral.
C6_QuadGivesTwoTriangles ==
    [][(/\ pc = "loop"
        /\ \E q \in Quads :
              boundaries[i + 1].geom \in {QuadAsPolyline(q), QuadAsLines(q)}
        /\ "parameters" \notin DOMAIN boundaries[i + 1].props
        /\ ReachesConversion(boundaries[i + 1])) =>
            /\ Len(NewMeshes) = 1
            /\ NumFaces(NewMeshes[1]) = 2
            /\ \A q \in Quads :
                  boundaries[i + 1].geom \in {QuadAsPolyline(q), QuadAsLines(q)}
                      => MeshArea2(NewMeshes[1], 1) = QuadArea2(q)]_vars

EndPoints(curve) ==
    LET got == get_curve_points(curve).pts
    IN  IF got = <<>> THEN {} ELSE {got[1], got[Len(got)]}
\* how many curve ends (first or last point of a curve) lie at p
EndsAt(curves, p) ==
    Cardinality({ k \in 1..Len(curves) :
                    get_curve_points(curves[k]).pts # <<>>
                    /\ get_curve_points(curves[k]).pts[1] = p })
    + Cardinality({ k \in 1..Len(curves) :
                    get_curve_points(curves[k]).pts # <<>>
                    /\ get_curve_points(curves[k]).pts[
                           Len(get_curve_points(curves[k]).pts)] = p })
\* endpoints at which a chain of curves stops: a single curve end lies there
DanglingPoints(curves) ==
    { p \in UNION { EndPoints(curves[k]) : k \in 1..Len(curves) } :
        EndsAt(curves, p) = 1 }
MeshPoints(mesh) == { Vertex(mesh, n) : n \in 0..(NumVertices(mesh) - 1) }

\* C7: in a boundary holding an unclosed chain next to closed loops, the
\* unclosed chain is reported as MalformedLoop and gives no point to any
\* mesh, while the closed loops are still tessellated.
C7_UnclosedChainExcluded ==
    [][(/\ pc = "loop"
        /\ ReachesConversion(boundaries[i + 1])
        /\ Pooled(Curves(boundaries[i + 1])).ok
        /\ "parameters" \notin DOMAIN boundaries[i + 1].props
        /\ DanglingPoints(Curves(boundaries[i + 1])) # {}
        /\ \E k \in 1..Len(Curves(boundaries[i + 1])) :
              EndPoints(Curves(boundaries[i + 1])[k])
                  \cap DanglingPoints(Curves(boundaries[i + 1])) = {}) =>
            /\ Failure(i, "MalformedLoop") \in Range(NewFailures)
            /\ NewMeshes # <<>>
            /\ \A k \in 1..Len(NewMeshes) :
                  MeshPoints(NewMeshes[k])
                      \cap DanglingPoints(Curves(boundaries[i + 1])) = {}]_vars

\* C8: every mesh of converted_surfaces has a face list made of triples of
\* vertex indices, each at least 0 and below the mesh's number of vertices.
C8_FaceIndicesValid ==
    \A k \in 1..Len(converted_surfaces) :
        LET mesh == converted_surfaces[k]
        IN  /\ Len(mesh.faces) % 3 = 0
            /\ \A f \in 1..Len(mesh.faces) :
                  mesh.faces[f] >= 0 /\ mesh.faces[f] < NumVertices(mesh)

\* C9: a loop with fewer than 3 distinct points gives no mesh and one
\* failure entry for its boundary, and the batch goes on.
C9_DegenerateLoopReported ==
    [][(/\ pc = "loop"
        /\ ReachesConversion(boundaries[i + 1])
        /\ Pooled(Curves(boundaries[i + 1])).ok
        /\ Cardinality(Range(Pooled(Curves(boundaries[i + 1])).pts)) < 3) =>
            /\ converted_surfaces' = converted_surfaces
            /\ \E reason \in Reasons :
                  failed_conversions' = Append(failed_conversions, Failure(i, reason))
            /\ i' = i + 1]_vars

Permuted(seq) ==
    { [k \in 1..Len(seq) |-> seq[f[k]]] : f \in Permutations(1..Len(seq)) }
LoopPointSet(loop) ==
    UNION { Range(get_curve_points(loop[k]).pts) : k \in 1..Len(loop) }
LoopPointSets(loops) == { LoopPointSet(loops[k]) : k \in 1..Len(loops) }

\* C10: the loops the batch loop obtains from group_curves_into_loops are,
\* as point sets, the loops it returns for every permutation of the curves.
C10_GroupingOrderIndependent ==
    [][(pc = "loop" /\ ReachesConversion(boundaries[i + 1])) =>
            LET obtained == LoopPointSets(curve_loops')
            IN  \A perm \in Permuted(Curves(boundaries[i + 1])) :
                    LoopPointSets(group_curves_into_loops(perm)) = obtained]_vars

\* a boundary of several curves has been grouped
C10_Witness ==
    /\ i >= 1
    /\ ReachesConversion(boundaries[i])
    /\ curve_loops = <<Curves(boundaries[i])>>
    /\ Len(Curves(boundaries[i])) >= 4

====
